---- MODULE Spec2Model ----
(***************************************************************************)
(* Model of the zeppelin meta server (src/src/meta/zp_meta_server.cc):     *)
(* the topology operations AddNode / OffNode / OnNode / Distribute over    *)
(* the floyd key-value store, the liveness map, the update queue, the      *)
(* leader lifecycle (IsLeader / BecomeLeader / InitVersion) and the        *)
(* Reorganize placement loop.                                              *)
(***************************************************************************)
EXTENDS Integers, Sequences, FiniteSets, TLC

VARIABLES
  floyd,               \* the replicated store: keys ND, MT, PN, PART:<id>
  version_,            \* ZPMetaServer::version_, the cached epoch
  node_alive_,         \* ZPMetaServer::node_alive_: endpoint -> "last-seen is older than the timeout"
  tasks,               \* FIFO of the update thread: <<endpoint, op>>
  leader_ip_,          \* cached identity of the remote leader (leader_ip_, leader_cmd_port_)
  leader_cli_,         \* the redirect channel: "NULL" or "conn"
  leader_first_time_,  \* ZPMetaServer::leader_first_time_
  floyd_leader,        \* what floyd_->GetLeader answers: "none", "self" or a remote peer
  d,                   \* the dispatcher worker: its position and locals
  u,                   \* the update worker: its position and locals
  p,                   \* the thread inside IsLeader/BecomeLeader/InitVersion
  last_mt_write,       \* version of this peer's latest successful MT write, -1 before the first
  promoted,            \* BecomeLeader has returned and this peer wrote no MT since
  observed,            \* what the last IsLeader that looked found: "unknown", "follower", "leader"
  silent,              \* the data nodes that have stopped sending JOIN and PING for good
  rg,                  \* the frame of Reorganize: buckets, empty_count, output
  srv                  \* Start() and Stop(): their positions, should_exit_, started_, server_mutex_

vars == <<floyd, version_, node_alive_, tasks, leader_ip_, leader_cli_,
          leader_first_time_, floyd_leader, d, u, p, last_mt_write, promoted, observed, silent, rg, srv>>

sysvars == <<floyd, version_, node_alive_, tasks, leader_ip_, leader_cli_,
             leader_first_time_, floyd_leader, d, u, p, last_mt_write, promoted, observed, silent, srv>>

----------------------------------------------------------------------------
(* Bounds of the model.                                                    *)

MaxNum == 1          \* INIT{num} ranges over 0..MaxNum
MaxQueue == 1        \* the update queue holds at most MaxQueue tasks
MaxVersion == 2      \* no MT write is started once version_ reached MaxVersion
MaxReorgLen == 5     \* Reorganize is run on lists of 1..MaxReorgLen nodes
MaxEmptyCount == 6   \* Reorganize's empty_count is followed up to this value

----------------------------------------------------------------------------
(* Data model.                                                             *)

kNodeUp == 0
kNodeDown == 1

\* A key of the store holds Absent (floyd answers NotFound) or Val(x).
Absent == <<>>

Val(x) == <<x>>

Has(c) == c # <<>>

Get(c) == c[1]

\* std::map<std::string, ...> iterates its keys in this (lexicographic) order.
HostOrder == <<"h1", "h2", "h3">>

Hosts == {HostOrder[i] : i \in 1..Len(HostOrder)}

\* ZPMeta::Node: (ip, port).
Node(ip, port) == <<ip, port>>

Ip(n) == n[1]

\* master().ip() == "" && master().port() == 0
NoNode == Node("", 0)

\* The data nodes that send JOIN and PING, in the order of their "ip:port" strings.
EndpointOrder == <<Node("h1", 1), Node("h2", 1)>>

Endpoints == {EndpointOrder[i] : i \in 1..Len(EndpointOrder)}

Min(S) == CHOOSE x \in S : \A y \in S : x <= y

SeqToSet(s) == {s[i] : i \in 1..Len(s)}

----------------------------------------------------------------------------
(* Reorganize.                                                             *)

\* lines 148-159: bucket the alive nodes by ip, in insertion order.
Bucket(t_alive_nodes, ip) ==
  SelectSeq(t_alive_nodes, LAMBDA n : Ip(n) = ip)

ReorgKeys(t_alive_nodes) ==
  SelectSeq(HostOrder, LAMBDA h : \E i \in 1..Len(t_alive_nodes) : Ip(t_alive_nodes[i]) = h)

\* The frame at line 163, before the first test of the while loop.
ReorgStart(t_alive_nodes) ==
  LET keys == ReorgKeys(t_alive_nodes)
  IN [pc          |-> "while",
      keys        |-> keys,
      m           |-> [h \in SeqToSet(keys) |-> Bucket(t_alive_nodes, h)],
      msize       |-> Len(keys),
      empty_count |-> 0,
      iter_m      |-> 0,
      alive_nodes |-> <<>>]

RgIdle ==
  [pc |-> "idle", keys |-> <<>>, m |-> <<>>, msize |-> 0, empty_count |-> 0,
   iter_m |-> 0, alive_nodes |-> <<>>]

\* lines 164-166: the test at the head of while (true).
ReorgWhile(f) ==
  IF f.empty_count = f.msize
  THEN [f EXCEPT !.pc = "done"]
  ELSE [f EXCEPT !.pc = "for", !.iter_m = 1]

\* ReorgFor that stays on the bucket it has just popped.
ReorgFor_SameBucket(f) ==
  IF f.iter_m > f.msize
  THEN [f EXCEPT !.pc = "while", !.iter_m = 0]
  ELSE LET k == f.keys[f.iter_m]
           b == f.m[k]
       IN IF b = <<>>
          THEN [f EXCEPT !.empty_count = @ + 1, !.iter_m = @ + 1]
          ELSE [f EXCEPT !.alive_nodes = Append(@, b[Len(b)]),
                         !.m[k] = SubSeq(b, 1, Len(b) - 1)]

\* lines 167-176: one turn of the for loop over the map.
ReorgFor(f) ==
  IF f.iter_m > f.msize
  THEN [f EXCEPT !.pc = "while", !.iter_m = 0]
  ELSE LET k == f.keys[f.iter_m]
           b == f.m[k]
       IN IF b = <<>>
          THEN [f EXCEPT !.empty_count = @ + 1, !.iter_m = @ + 1]
          ELSE [f EXCEPT !.alive_nodes = Append(@, b[Len(b)]),
                         !.m[k] = SubSeq(b, 1, Len(b) - 1),
                         !.iter_m = @ + 1]

ReorgStep(f) ==
  IF f.pc = "while" THEN ReorgWhile(f) ELSE ReorgFor(f)

ReorgAllEmpty(f) == \A k \in DOMAIN f.m : f.m[k] = <<>>

\* empty_count only grows: once every bucket is empty and it has passed msize
\* the test of line 164 is never true again (short of signed overflow).
ReorgDiverged(f) ==
  f.pc = "while" /\ ReorgAllEmpty(f) /\ f.empty_count > f.msize

\* The frame Reorganize ends in: pc = "done", or the frame it diverges from.
RECURSIVE ReorgRun(_)
ReorgRun(f) ==
  IF f.pc = "done" \/ ReorgDiverged(f) THEN f
  ELSE ReorgRun(ReorgStep(f))

\* Reorganize never returns on this input.
ReorgHangs(t_alive_nodes) == ReorgRun(ReorgStart(t_alive_nodes)).pc # "done"

\* The vector Reorganize hands back to Distribute.
Reorganize(t_alive_nodes) == ReorgRun(ReorgStart(t_alive_nodes)).alive_nodes

----------------------------------------------------------------------------
(* The store and the pure parts of the topology operations.  Every         *)
(* operation takes the store fl, the cached epoch ver and a fault f: the   *)
(* one floyd call of the operation that fails ("none": all succeed).       *)

Faults == {"none", "rPN", "rND", "wND", "wPART", "rMT", "wMT"}

EmptyStore ==
  [ND |-> Absent, MT |-> Absent, PN |-> Absent,
   PART |-> [i \in 0..(MaxNum - 1) |-> Absent]]

\* What an operation leaves: the store, its Status, and whether it stands
\* right after a successful SetMSInfo with its version_++ still to come.
Out(fl, s, pend) == [fl |-> fl, s |-> s, pend |-> pend]

\* lines 285-303
GetAllNode(fl, f) ==
  IF f = "rND" THEN [s |-> "Corruption", nodes |-> <<>>]
  ELSE IF ~Has(fl.ND) THEN [s |-> "NotFound", nodes |-> <<>>]
  ELSE [s |-> "OK", nodes |-> Get(fl.ND)]

\* lines 305-312
GetAllAliveNode(nodes) ==
  SelectSeq(nodes, LAMBDA ns : ns.status = kNodeUp)

\* lines 314-322
FindNode(nodes, n) ==
  \E i \in 1..Len(nodes) : nodes[i].node = n

\* lines 393-400
IsAlive(alive_nodes, n) ==
  \E i \in 1..Len(alive_nodes) : alive_nodes[i].node = n

\* lines 587-601
GetMSInfo(fl, f) ==
  IF f = "rMT" \/ ~Has(fl.MT)
  THEN [s |-> "Corruption", ms_info |-> [version |-> 0, info |-> <<>>]]
  ELSE [s |-> "OK", ms_info |-> Get(fl.MT)]

\* lines 603-612
PartitionNums(fl, f) ==
  IF f = "rPN" \/ ~Has(fl.PN) THEN 0 ELSE Get(fl.PN)

\* OnNodePartition without the RemoveLast of line 557.
OnNodePartition_NoRemoveLast(part, n) ==
  LET js == {j \in 1..Len(part.slaves) : part.slaves[j] = n}
  IN IF part.master = NoNode /\ js # {}
     THEN LET j == Min(js)
              slaves_size == Len(part.slaves)
              moved == [part.slaves EXCEPT ![j] = part.slaves[slaves_size]]
          IN [part EXCEPT !.master = part.slaves[j],
                          !.slaves = moved]
     ELSE part

\* lines 547-561: what the loop of OnNode does to one partition.
OnNodePartition(part, n) ==
  LET js == {j \in 1..Len(part.slaves) : part.slaves[j] = n}
  IN IF part.master = NoNode /\ js # {}
     THEN LET j == Min(js)
              slaves_size == Len(part.slaves)
              moved == [part.slaves EXCEPT ![j] = part.slaves[slaves_size]]
          IN [part EXCEPT !.master = part.slaves[j],
                          !.slaves = SubSeq(moved, 1, slaves_size - 1)]
     ELSE part

\* lines 536-585
OnNode(fl, ver, n, f) ==
  LET g == GetMSInfo(fl, f)
  IN IF g.s # "OK" THEN Out(fl, g.s, FALSE)
     ELSE LET info == [i \in DOMAIN g.ms_info.info |-> OnNodePartition(g.ms_info.info[i], n)]
              should_rewrite == \E i \in DOMAIN info :
                                   /\ g.ms_info.info[i].master = NoNode
                                   /\ n \in SeqToSet(g.ms_info.info[i].slaves)
          IN IF ~should_rewrite THEN Out(fl, "OK", FALSE)
             ELSE IF f = "wMT" THEN Out(fl, "Corruption", FALSE)
             ELSE Out([fl EXCEPT !.MT = Val([version |-> ver + 1, info |-> info])], "OK", TRUE)

\* lines 432-460: what the loop of OffNode does to one partition.
OffNodePartition(part, alive_nodes, n) ==
  IF part.master # n THEN part
  ELSE LET js == {j \in 1..Len(part.slaves) : IsAlive(alive_nodes, part.slaves[j])}
       IN IF js # {}
          THEN LET j == Min(js)
               IN [part EXCEPT !.master = part.slaves[j], !.slaves[j] = part.master]
          ELSE [part EXCEPT !.master = NoNode, !.slaves = Append(part.slaves, part.master)]

\* lines 467-483 of OffNode: the rewrite of MT.
OffNodeRewrite(fl, ver, alive_nodes, n, f) ==
  LET g == GetMSInfo(fl, f)
  IN IF g.s # "OK" THEN Out(fl, g.s, FALSE)
     ELSE LET info == [i \in DOMAIN g.ms_info.info |->
                          OffNodePartition(g.ms_info.info[i], alive_nodes, n)]
              should_rewrite == \E i \in DOMAIN info : g.ms_info.info[i].master = n
          IN IF ~should_rewrite THEN Out(fl, "OK", FALSE)
             ELSE IF f = "wMT" THEN Out(fl, "Corruption", FALSE)
             ELSE Out([fl EXCEPT !.MT = Val([version |-> ver + 1, info |-> info])], "OK", TRUE)

\* lines 324-356
SetNodeStatus(fl, ver, nodes, n, status, f) ==
  LET is == {i \in 1..Len(nodes) : nodes[i].node = n}
  IN IF is = {} THEN Out(fl, "NotFound", FALSE)
     ELSE LET i == Min(is)
          IN IF nodes[i].status = status THEN Out(fl, "OK", FALSE)
             ELSE IF f = "wND" THEN Out(fl, "Corruption", FALSE)
             ELSE LET fl2 == [fl EXCEPT !.ND = Val([nodes EXCEPT ![i].status = status])]
                  IN IF status = kNodeUp
                     THEN LET o == OnNode(fl2, ver, n, f)
                          IN IF o.s # "OK" THEN Out(fl2, "Corruption", FALSE) ELSE o
                     ELSE Out(fl2, "OK", FALSE)

\* lines 358-391
AddNode(fl, ver, n, f) ==
  LET g == GetAllNode(fl, f)
  IN IF g.s = "OK" /\ FindNode(g.nodes, n)
     THEN SetNodeStatus(fl, ver, g.nodes, n, kNodeUp, f)
     ELSE IF g.s = "NotFound" \/ g.s = "OK"
     THEN IF f = "wND" THEN Out(fl, "Corruption", FALSE)
          ELSE Out([fl EXCEPT !.ND = Val(Append(g.nodes, [node |-> n, status |-> kNodeUp]))],
                   "OK", FALSE)
     ELSE Out(fl, g.s, FALSE)

\* lines 402-484
OffNode(fl, ver, n, f) ==
  LET g == GetAllNode(fl, f)
  IN IF g.s # "OK" THEN Out(fl, g.s, FALSE)
     ELSE LET alive_nodes == GetAllAliveNode(g.nodes)
              o == SetNodeStatus(fl, ver, g.nodes, n, kNodeDown, f)
          IN IF o.s # "OK" THEN o
             ELSE OffNodeRewrite(o.fl, ver, alive_nodes, n, f)

\* lines 210-231: partition i over the reorganized alive nodes.
DistPartition(alive_nodes, i) ==
  LET an_num == Len(alive_nodes)
  IN [id     |-> i,
      master |-> alive_nodes[(i % an_num) + 1],
      slaves |-> <<alive_nodes[((i + 1) % an_num) + 1], alive_nodes[((i + 2) % an_num) + 1]>>]

DistReplicaset(alive_nodes, i) ==
  LET part == DistPartition(alive_nodes, i)
  IN [id |-> i, node |-> <<part.master>> \o part.slaves]

\* lines 180-239 of Distribute, up to and including SetMSInfo.  k is the
\* partition whose SetReplicaset fails under the fault "wPART".  The result
\* has mt: "none" (returned before line 238), "ok" or "fail" (SetMSInfo).
Distribute(fl, ver, num, f, k) ==
  LET g == GetAllNode(fl, f)
      t_alive_nodes == GetAllAliveNode(g.nodes)
      t_nodes == [i \in 1..Len(t_alive_nodes) |-> t_alive_nodes[i].node]
      alive_nodes == Reorganize(t_nodes)
      stop(fl2, s) == [fl |-> fl2, s |-> s, mt |-> "none"]
  IN IF PartitionNums(fl, f) # 0 THEN stop(fl, "Corruption")
     ELSE IF g.s # "OK" THEN stop(fl, g.s)
     ELSE IF t_alive_nodes = <<>> THEN stop(fl, "Corruption")
     ELSE IF ReorgHangs(t_nodes) THEN stop(fl, "Hang")
     ELSE LET upto == IF f = "wPART" /\ k < num THEN k ELSE num
              fl2 == [fl EXCEPT !.PART = [i \in DOMAIN fl.PART |->
                        IF i < upto THEN Val(DistReplicaset(alive_nodes, i)) ELSE fl.PART[i]]]
              ms_info == [version |-> ver + 1,
                          info |-> [i \in 1..num |-> DistPartition(alive_nodes, i - 1)]]
          IN IF upto < num THEN stop(fl2, "Corruption")
             ELSE IF f = "wMT" THEN [fl |-> fl2, s |-> "Corruption", mt |-> "fail"]
             ELSE [fl |-> [fl2 EXCEPT !.MT = Val(ms_info)], s |-> "OK", mt |-> "ok"]

\* The version a store's MT holds; InitVersion reads an absent MT as -1 (lines 95-96).
MTVersion(fl) == IF Has(fl.MT) THEN Get(fl.MT).version ELSE -1

----------------------------------------------------------------------------
(* The threads.  d is a dispatcher worker serving JOIN, PING and INIT, u   *)
(* the update worker, p the thread that is inside IsLeader.                *)

RemotePeers == {"p2"}

DIdle == [pc |-> "idle", cmd |-> "", n |-> NoNode, num |-> 0, mt_ok |-> FALSE]

UIdle == [pc |-> "idle", op |-> "", n |-> NoNode]

PIdle == [pc |-> "idle", alive |-> {}, val |-> 0]

\* node_mutex_ is held by the operation that stands between SetMSInfo and
\* version_++, and by a Distribute that never leaves Reorganize.
NodeMutexFree == d.pc \notin {"finish", "hung"} /\ u.pc # "finish"

\* The last IsLeader() of this peer answered true and no IsLeader() is running
\* (leader_mutex_ is free): write commands and the sweep run locally.
Leading == floyd_leader = "self" /\ ~leader_first_time_ /\ p.pc = "idle"

\* lines 14-15: should_exit_(false), started_(false); server_mutex_ is free,
\* Start() is about to enter its leader-wait loop and Stop() is not yet called.
SrvInit ==
  [start |-> "wait", stop |-> "idle", should_exit_ |-> FALSE, started_ |-> FALSE,
   server_mutex_ |-> "free"]

Init ==
  /\ floyd = EmptyStore
  /\ version_ = -1
  /\ node_alive_ = [n \in Endpoints |-> "absent"]
  /\ tasks = <<>>
  /\ leader_ip_ = ""
  /\ leader_cli_ = "NULL"
  /\ leader_first_time_ = TRUE
  /\ floyd_leader = "none"
  /\ d = DIdle
  /\ u = UIdle
  /\ p = PIdle
  /\ last_mt_write = -1
  /\ promoted = FALSE
  /\ observed = "unknown"
  /\ silent = {}
  /\ srv = SrvInit
  /\ rg = RgIdle

\* A successful SetMSInfo of this peer that carries version ver + 1.
WroteMT(ver) ==
  /\ last_mt_write' = ver + 1
  /\ promoted' = FALSE

NoMTWrite == UNCHANGED <<last_mt_write, promoted>>

\* JOIN, lines 262-268: AddNodeAlive puts the endpoint into node_alive_.
JoinAlive(n) ==
  /\ d.pc = "idle"
  /\ Leading
  /\ Len(tasks) < MaxQueue
  /\ node_alive_' = [node_alive_ EXCEPT ![n] = "fresh"]
  /\ d' = [DIdle EXCEPT !.pc = "join", !.cmd = "JOIN", !.n = n]
  /\ UNCHANGED <<floyd, version_, tasks, leader_ip_, leader_cli_, leader_first_time_,
                 floyd_leader, u, p, last_mt_write, promoted, observed, silent, rg, srv>>

\* JOIN, lines 270-283: AddNode under node_mutex_, then ScheduleUpdate(kOpAdd).
\* When AddNode reached OnNode's SetMSInfo, version_++ is left to JoinFinish.
JoinAddNode(f) ==
  /\ d.pc = "join"
  /\ NodeMutexFree
  /\ LET o == AddNode(floyd, version_, d.n, f)
     IN /\ o.pend => version_ < MaxVersion
        /\ floyd' = o.fl
        /\ IF o.pend
           THEN /\ d' = [d EXCEPT !.pc = "finish"]
                /\ WroteMT(version_)
                /\ UNCHANGED tasks
           ELSE /\ d' = DIdle
                /\ tasks' = IF o.s = "OK" THEN Append(tasks, <<d.n, "ADD">>) ELSE tasks
                /\ NoMTWrite
  /\ UNCHANGED <<version_, node_alive_, leader_ip_, leader_cli_, leader_first_time_,
                 floyd_leader, u, p, observed, silent, rg, srv>>

\* JOIN, lines 579-580 then 347, 281-282.
JoinFinish ==
  /\ d.pc = "finish" /\ d.cmd = "JOIN"
  /\ version_' = version_ + 1
  /\ tasks' = Append(tasks, <<d.n, "ADD">>)
  /\ d' = DIdle
  /\ UNCHANGED <<floyd, node_alive_, leader_ip_, leader_cli_, leader_first_time_,
                 floyd_leader, u, p, last_mt_write, promoted, observed, silent, rg, srv>>

\* PING, lines 506-516.
Ping(n) ==
  /\ d.pc = "idle"
  /\ Leading
  /\ node_alive_[n] = "old"
  /\ node_alive_' = [node_alive_ EXCEPT ![n] = "fresh"]
  /\ UNCHANGED <<floyd, version_, tasks, leader_ip_, leader_cli_, leader_first_time_,
                 floyd_leader, d, u, p, last_mt_write, promoted, observed, silent, rg, srv>>

\* INIT, lines 180-239: Distribute up to and including SetMSInfo.
InitDistribute(num, f, k) ==
  /\ d.pc = "idle"
  /\ Leading
  /\ NodeMutexFree
  /\ LET o == Distribute(floyd, version_, num, f, k)
     IN /\ o.mt = "ok" => version_ < MaxVersion
        /\ floyd' = o.fl
        /\ IF o.mt = "none"
           THEN /\ d' = IF o.s = "Hang"
                        THEN [DIdle EXCEPT !.pc = "hung", !.cmd = "INIT", !.num = num]
                        ELSE DIdle
                /\ NoMTWrite
           ELSE /\ d' = [DIdle EXCEPT !.pc = "finish", !.cmd = "INIT", !.num = num,
                                      !.mt_ok = (o.mt = "ok")]
                /\ IF o.mt = "ok" THEN WroteMT(version_) ELSE NoMTWrite
  /\ UNCHANGED <<version_, node_alive_, tasks, leader_ip_, leader_cli_, leader_first_time_,
                 floyd_leader, u, p, observed, silent, rg, srv>>

\* INIT, lines 240-259: version_++ after a successful SetMSInfo, then the write of PN.
InitFinish(pn_ok) ==
  /\ d.pc = "finish" /\ d.cmd = "INIT"
  /\ version_' = IF d.mt_ok THEN version_ + 1 ELSE version_
  /\ floyd' = IF pn_ok THEN [floyd EXCEPT !.PN = Val(d.num)] ELSE floyd
  /\ d' = DIdle
  /\ UNCHANGED <<node_alive_, tasks, leader_ip_, leader_cli_, leader_first_time_,
                 floyd_leader, u, p, last_mt_write, promoted, observed, silent, rg, srv>>

\* The sweeper, lines 486-504.
CheckNodeAlive ==
  LET need_remove == SelectSeq(EndpointOrder, LAMBDA n : node_alive_[n] = "old")
  IN /\ Leading
     /\ need_remove # <<>>
     /\ Len(tasks) + Len(need_remove) + (IF d.cmd = "JOIN" THEN 1 ELSE 0) <= MaxQueue
     /\ node_alive_' = [n \in Endpoints |->
                          IF node_alive_[n] = "old" THEN "absent" ELSE node_alive_[n]]
     /\ tasks' = tasks \o [i \in 1..Len(need_remove) |-> <<need_remove[i], "REMOVE">>]
     /\ UNCHANGED <<floyd, version_, leader_ip_, leader_cli_, leader_first_time_,
                    floyd_leader, d, u, p, last_mt_write, promoted, observed, silent, rg, srv>>

\* More than kNodeMetaTimeoutM seconds pass without any heartbeat.
Tick ==
  /\ \E n \in Endpoints : node_alive_[n] = "fresh"
  /\ node_alive_' = [n \in Endpoints |->
                       IF node_alive_[n] = "fresh" THEN "old" ELSE node_alive_[n]]
  /\ UNCHANGED <<floyd, version_, tasks, leader_ip_, leader_cli_, leader_first_time_,
                 floyd_leader, d, u, p, last_mt_write, promoted, observed, silent, rg, srv>>

\* The update worker takes the head of its queue: kOpAdd runs AddNode,
\* kOpRemove runs OffNode.
UpdateTask(f) ==
  /\ u.pc = "idle"
  /\ tasks # <<>>
  /\ NodeMutexFree
  /\ LET n == Head(tasks)[1]
         op == Head(tasks)[2]
         o == IF op = "ADD" THEN AddNode(floyd, version_, n, f)
                            ELSE OffNode(floyd, version_, n, f)
     IN /\ o.pend => version_ < MaxVersion
        /\ floyd' = o.fl
        /\ tasks' = Tail(tasks)
        /\ IF o.pend
           THEN /\ u' = [pc |-> "finish", op |-> op, n |-> n]
                /\ WroteMT(version_)
           ELSE /\ u' = UIdle
                /\ NoMTWrite
  /\ UNCHANGED <<version_, node_alive_, leader_ip_, leader_cli_, leader_first_time_,
                 floyd_leader, d, p, observed, silent, rg, srv>>

\* lines 478-483 and 579-584: version_++ after the successful SetMSInfo.
UpdateFinish ==
  /\ u.pc = "finish"
  /\ version_' = version_ + 1
  /\ u' = UIdle
  /\ UNCHANGED <<floyd, node_alive_, tasks, leader_ip_, leader_cli_, leader_first_time_,
                 floyd_leader, d, p, last_mt_write, promoted, observed, silent, rg, srv>>

\* IsLeader, lines 636-647 with BecomeLeader's GetAllNode (lines 668-673):
\* this peer is the leader. With leader_first_time_ set it tears the channel
\* down and calls BecomeLeader; otherwise it only answers true.
IsLeaderSelf(f) ==
  /\ p.pc = "idle"
  /\ floyd_leader = "self"
  /\ observed' = "leader"
  /\ IF leader_first_time_
     THEN /\ leader_first_time_' = FALSE
          /\ leader_cli_' = "NULL"
          /\ leader_ip_' = ""
          /\ LET g == GetAllNode(floyd, f)
             IN IF g.s # "OK"
                THEN /\ p' = PIdle
                     /\ promoted' = TRUE
                ELSE /\ p' = [PIdle EXCEPT !.pc = "restore",
                                !.alive = {ns.node : ns \in SeqToSet(GetAllAliveNode(g.nodes))}]
                     /\ UNCHANGED promoted
     ELSE UNCHANGED <<leader_first_time_, leader_cli_, leader_ip_, p, promoted>>
  /\ UNCHANGED <<floyd, version_, node_alive_, tasks, floyd_leader, d, u,
                 last_mt_write, silent, rg, srv>>

\* BecomeLeader, line 676: RestoreNodeAlive (lines 707-718).
RestoreNodeAlive ==
  /\ p.pc = "restore"
  /\ node_alive_' = [n \in Endpoints |-> IF n \in p.alive THEN "fresh" ELSE "absent"]
  /\ p' = [p EXCEPT !.pc = "iv_read"]
  /\ UNCHANGED <<floyd, version_, tasks, leader_ip_, leader_cli_, leader_first_time_,
                 floyd_leader, d, u, last_mt_write, promoted, observed, silent, rg, srv>>

\* InitVersion, lines 93-102: the Read of MT that succeeds (a failed Read is retried).
InitVersionRead ==
  /\ p.pc = "iv_read"
  /\ p' = [p EXCEPT !.pc = "iv_set", !.val = MTVersion(floyd)]
  /\ UNCHANGED <<floyd, version_, node_alive_, tasks, leader_ip_, leader_cli_,
                 leader_first_time_, floyd_leader, d, u, last_mt_write, promoted, observed, silent, rg, srv>>

\* InitVersion, lines 98-102: ParseFromString fails on the value read from
\* MT.  The failure is only logged; ms_info, cleared at line 98, then holds
\* whatever was decoded before the failure: its version is the default 0 or
\* the stored one.
InitVersionParseFailed(v) ==
  /\ p.pc = "iv_read"
  /\ Has(floyd.MT)
  /\ v \in {0, MTVersion(floyd)}
  /\ p' = [p EXCEPT !.pc = "iv_fail", !.val = v]
  /\ UNCHANGED <<floyd, version_, node_alive_, tasks, leader_ip_, leader_cli_,
                 leader_first_time_, floyd_leader, d, u, last_mt_write, promoted, observed, silent, rg, srv>>

\* InitVersion, lines 96 and 102: the store into version_; BecomeLeader returns.
InitVersionSet ==
  /\ p.pc \in {"iv_set", "iv_fail"}
  /\ version_' = p.val
  /\ p' = PIdle
  /\ promoted' = (floyd_leader = "self")
  /\ UNCHANGED <<floyd, node_alive_, tasks, leader_ip_, leader_cli_, leader_first_time_,
                 floyd_leader, d, u, last_mt_write, observed, silent, rg, srv>>

\* IsLeaderRemote without line 651 when the connect fails.
IsLeaderRemote_KeepsFirstTime(connect_ok) ==
  /\ p.pc = "idle"
  /\ floyd_leader \in RemotePeers
  /\ floyd_leader # leader_ip_
  /\ observed' = "follower"
  /\ leader_first_time_' = IF connect_ok THEN TRUE ELSE leader_first_time_
  /\ leader_ip_' = IF connect_ok THEN floyd_leader ELSE ""
  /\ leader_cli_' = IF connect_ok THEN "conn" ELSE "NULL"
  /\ UNCHANGED <<floyd, version_, node_alive_, tasks, floyd_leader, d, u, p,
                 last_mt_write, promoted, silent, rg, srv>>

\* IsLeader, lines 649-664: another peer is the leader and it is not the cached one.
IsLeaderRemote(connect_ok) ==
  /\ p.pc = "idle"
  /\ floyd_leader \in RemotePeers
  /\ floyd_leader # leader_ip_
  /\ observed' = "follower"
  /\ leader_first_time_' = TRUE
  /\ leader_ip_' = IF connect_ok THEN floyd_leader ELSE ""
  /\ leader_cli_' = IF connect_ok THEN "conn" ELSE "NULL"
  /\ UNCHANGED <<floyd, version_, node_alive_, tasks, floyd_leader, d, u, p,
                 last_mt_write, promoted, silent, rg, srv>>

\* lines 683-705: what RedirectToLeader returns and leaves of the channel.
\* CleanLeader (lines 720-728) closes the channel and forgets the leader.
RedirectToLeader(cli, ip, send_ok, recv_ok) ==
  IF cli = "NULL"
  THEN [s |-> "Corruption", leader_cli_ |-> cli, leader_ip_ |-> ip]
  ELSE IF ~send_ok \/ ~recv_ok
  THEN [s |-> "Corruption", leader_cli_ |-> "NULL", leader_ip_ |-> ""]
  ELSE [s |-> "OK", leader_cli_ |-> cli, leader_ip_ |-> ip]

\* This peer knows another peer to be the leader: requests are redirected.
Follower == p.pc = "idle" /\ floyd_leader \in RemotePeers

\* A worker redirects a request to the leader, under leader_mutex_.
Redirect(send_ok, recv_ok) ==
  /\ Follower
  /\ LET r == RedirectToLeader(leader_cli_, leader_ip_, send_ok, recv_ok)
     IN /\ leader_cli_' = r.leader_cli_
        /\ leader_ip_' = r.leader_ip_
  /\ UNCHANGED <<floyd, version_, node_alive_, tasks, leader_first_time_, floyd_leader,
                 d, u, p, last_mt_write, promoted, observed, silent, rg, srv>>

\* The consensus layer elects another leader, or loses its leader.
LeaderChange(l) ==
  /\ l # floyd_leader
  /\ floyd_leader' = l
  /\ promoted' = FALSE
  /\ UNCHANGED <<floyd, version_, node_alive_, tasks, leader_ip_, leader_cli_,
                 leader_first_time_, d, u, p, last_mt_write, observed, silent, rg, srv>>

\* The remote leader, whose cached epoch is the persisted one (it ran
\* InitVersion on its promotion), takes a node down and rewrites MT.
RemoteOffNode(n) ==
  /\ floyd_leader \in RemotePeers
  /\ MTVersion(floyd) < MaxVersion
  /\ LET o == OffNode(floyd, MTVersion(floyd), n, "none")
     IN /\ o.pend
        /\ floyd' = o.fl
  /\ UNCHANGED <<version_, node_alive_, tasks, leader_ip_, leader_cli_, leader_first_time_,
                 floyd_leader, d, u, p, last_mt_write, promoted, observed, silent, rg, srv>>

\* Every step of the peer and of its environment.
NextAll ==
  \/ \E n \in Endpoints : JoinAlive(n)
  \/ \E f \in {"none", "rND", "wND", "rMT", "wMT"} : JoinAddNode(f)
  \/ JoinFinish
  \/ \E n \in Endpoints : Ping(n)
  \/ \E num \in 0..MaxNum, f \in Faults, k \in 0..(MaxNum - 1) :
        (f # "wPART" => k = 0) /\ InitDistribute(num, f, k)
  \/ \E pn_ok \in BOOLEAN : InitFinish(pn_ok)
  \/ CheckNodeAlive
  \/ Tick
  \/ \E f \in {"none", "rND", "wND", "rMT", "wMT"} : UpdateTask(f)
  \/ UpdateFinish
  \/ \E f \in {"none", "rND"} : IsLeaderSelf(f)
  \/ RestoreNodeAlive
  \/ InitVersionRead
  \/ \E v \in 0..MaxVersion : InitVersionParseFailed(v)
  \/ InitVersionSet
  \/ \E connect_ok \in BOOLEAN : IsLeaderRemote(connect_ok)
  \/ \E send_ok, recv_ok \in BOOLEAN : Redirect(send_ok, recv_ok)
  \/ \E l \in {"none", "self"} \cup RemotePeers : LeaderChange(l)
  \/ \E n \in Endpoints : RemoteOffNode(n)

SpecAll == Init /\ [][NextAll]_vars

\* The peer through leader changes, with every floyd call of the topology
\* operations succeeding; only BecomeLeader's read of ND may fail.
Next ==
  \/ \E n \in Endpoints : JoinAlive(n)
  \/ JoinAddNode("none")
  \/ JoinFinish
  \/ \E n \in Endpoints : Ping(n)
  \/ \E num \in 0..MaxNum : InitDistribute(num, "none", 0)
  \/ InitFinish(TRUE)
  \/ CheckNodeAlive
  \/ Tick
  \/ UpdateTask("none")
  \/ UpdateFinish
  \/ \E f \in {"none", "rND"} : IsLeaderSelf(f)
  \/ RestoreNodeAlive
  \/ InitVersionRead
  \/ \E v \in 0..MaxVersion : InitVersionParseFailed(v)
  \/ InitVersionSet
  \/ \E connect_ok \in BOOLEAN : IsLeaderRemote(connect_ok)
  \/ \E send_ok, recv_ok \in BOOLEAN : Redirect(send_ok, recv_ok)
  \/ \E l \in {"none", "self"} \cup RemotePeers : LeaderChange(l)
  \/ \E n \in Endpoints : RemoteOffNode(n)

Spec == Init /\ [][Next]_vars

\* The same peer while it stays the leader it was first elected: no other
\* peer is ever elected, so BecomeLeader runs once, on the empty store.
NextTopo ==
  \/ floyd_leader = "none" /\ LeaderChange("self")
  \/ \E f \in {"none", "rND"} : IsLeaderSelf(f)
  \/ \E n \in Endpoints : JoinAlive(n)
  \/ \E f \in {"none", "rND", "wND", "rMT", "wMT"} : JoinAddNode(f)
  \/ JoinFinish
  \/ \E n \in Endpoints : Ping(n)
  \/ \E num \in 0..MaxNum, f \in Faults, k \in 0..(MaxNum - 1) :
        (f # "wPART" => k = 0) /\ InitDistribute(num, f, k)
  \/ \E pn_ok \in BOOLEAN : InitFinish(pn_ok)
  \/ CheckNodeAlive
  \/ Tick
  \/ \E f \in {"none", "rND", "wND", "rMT", "wMT"} : UpdateTask(f)
  \/ UpdateFinish

SpecTopo == Init /\ [][NextTopo]_vars

\* A data node stops sending JOIN and PING: it has crashed or is cut off.
Silence(n) ==
  /\ n \notin silent
  /\ silent' = silent \cup {n}
  /\ UNCHANGED <<floyd, version_, node_alive_, tasks, leader_ip_, leader_cli_,
                 leader_first_time_, floyd_leader, d, u, p, last_mt_write, promoted,
                 observed, rg, srv>>

\* A floyd call may fail only while no data node has fallen silent.
MayFail(f) == f = "none" \/ silent = {}

\* One leadership term, begun on the empty store (BecomeLeader returns at
\* lines 670-673, before RestoreNodeAlive and InitVersion), in which data
\* nodes fall silent; only the nodes that are not silent send JOIN and PING,
\* and from the first silence on every floyd call succeeds.
NextLive ==
  \/ floyd_leader = "none" /\ LeaderChange("self")
  \/ \E f \in {"none", "rND"} : MayFail(f) /\ IsLeaderSelf(f)
  \/ \E n \in Endpoints \ silent : JoinAlive(n)
  \/ \E f \in {"none", "rND", "wND", "rMT", "wMT"} : MayFail(f) /\ JoinAddNode(f)
  \/ JoinFinish
  \/ \E n \in Endpoints \ silent : Ping(n)
  \/ \E num \in 0..MaxNum, f \in Faults, k \in 0..(MaxNum - 1) :
        (f # "wPART" => k = 0) /\ MayFail(f) /\ InitDistribute(num, f, k)
  \/ \E pn_ok \in BOOLEAN : (pn_ok \/ silent = {}) /\ InitFinish(pn_ok)
  \/ \E n \in Endpoints : Silence(n)
  \/ Tick
  \/ CheckNodeAlive
  \/ \E f \in {"none", "rND", "wND", "rMT", "wMT"} : MayFail(f) /\ UpdateTask(f)
  \/ UpdateFinish

\* The timeout elapses for a node that stays silent, and every thread that
\* can take a step eventually takes one.
SpecLive ==
  /\ Init
  /\ [][NextLive]_vars
  /\ WF_vars(Tick)
  /\ WF_vars(CheckNodeAlive)
  /\ WF_vars(UpdateTask("none"))
  /\ WF_vars(UpdateFinish)
  /\ WF_vars(JoinAddNode("none"))
  /\ WF_vars(JoinFinish)
  /\ WF_vars(InitFinish(TRUE))

----------------------------------------------------------------------------
(* Start() on the main thread and one call of Stop() on another thread.    *)

\* What a step of Start() or Stop() leaves alone besides srv.
LifeUnchanged ==
  UNCHANGED <<floyd, version_, node_alive_, tasks, leader_ip_, leader_cli_,
              leader_first_time_, floyd_leader, d, u, last_mt_write, promoted,
              observed, silent, rg>>

\* lines 56-60: one test of the leader-wait loop.  GetLeader is evaluated
\* first; the loop goes on (sleep(1)) while it fails and should_exit_ is unset.
StartWait ==
  /\ srv.start = "wait"
  /\ floyd_leader # "none" \/ srv.should_exit_
  /\ srv' = [srv EXCEPT !.start = "check"]
  /\ UNCHANGED p
  /\ LifeUnchanged

\* line 61: the test of should_exit_; line 63: InitVersion is entered.
StartCheck ==
  /\ srv.start = "check"
  /\ IF srv.should_exit_
     THEN /\ srv' = [srv EXCEPT !.start = "cleanup"]
          /\ UNCHANGED p
     ELSE /\ srv' = [srv EXCEPT !.start = "init_version"]
          /\ p' = [PIdle EXCEPT !.pc = "iv_read"]
  /\ LifeUnchanged

\* lines 63-66: InitVersion has returned; the dispatch thread is started and
\* server_mutex_ is locked for the first time.
StartLock ==
  /\ srv.start = "init_version"
  /\ p.pc = "idle"
  /\ srv.server_mutex_ = "free"
  /\ srv' = [srv EXCEPT !.start = "set_started", !.server_mutex_ = "held"]
  /\ UNCHANGED p
  /\ LifeUnchanged

\* line 67
StartSetStarted ==
  /\ srv.start = "set_started"
  /\ srv' = [srv EXCEPT !.start = "lock_again", !.started_ = TRUE]
  /\ UNCHANGED p
  /\ LifeUnchanged

\* line 68: the second Lock of server_mutex_, which is not recursive: it
\* returns only once the mutex has been unlocked.
StartLockAgain ==
  /\ srv.start = "lock_again"
  /\ srv.server_mutex_ = "free"
  /\ srv' = [srv EXCEPT !.start = "unlock", !.server_mutex_ = "held"]
  /\ UNCHANGED p
  /\ LifeUnchanged

\* lines 69-71: Unlock, then CleanUp.
StartUnlock ==
  /\ srv.start = "unlock"
  /\ srv' = [srv EXCEPT !.start = "cleanup", !.server_mutex_ = "free"]
  /\ UNCHANGED p
  /\ LifeUnchanged

\* Stop() is called, once, and reads started_ (line 75).
StopTest ==
  /\ srv.stop = "idle"
  /\ srv' = [srv EXCEPT !.stop = IF srv.started_ THEN "unlock" ELSE "set_exit"]
  /\ UNCHANGED p
  /\ LifeUnchanged

\* line 76
StopUnlock ==
  /\ srv.stop = "unlock"
  /\ srv' = [srv EXCEPT !.stop = "set_exit", !.server_mutex_ = "free"]
  /\ UNCHANGED p
  /\ LifeUnchanged

\* line 78; Stop() returns.
StopSetExit ==
  /\ srv.stop = "set_exit"
  /\ srv' = [srv EXCEPT !.stop = "returned", !.should_exit_ = TRUE]
  /\ UNCHANGED p
  /\ LifeUnchanged

\* Start() and Stop() with floyd's elections and the InitVersion of line 63.
NextLife ==
  \/ StartWait
  \/ StartCheck
  \/ InitVersionRead
  \/ InitVersionSet
  \/ StartLock
  \/ StartSetStarted
  \/ StartLockAgain
  \/ StartUnlock
  \/ StopTest
  \/ StopUnlock
  \/ StopSetExit
  \/ \E l \in {"none", "self"} \cup RemotePeers : LeaderChange(l)

\* Both threads keep running; Stop() is called at some time; elections may
\* or may not happen.
SpecLife ==
  /\ Init
  /\ [][NextLife]_vars
  /\ WF_vars(StartWait) /\ WF_vars(StartCheck)
  /\ WF_vars(InitVersionRead) /\ WF_vars(InitVersionSet)
  /\ WF_vars(StartLock) /\ WF_vars(StartSetStarted)
  /\ WF_vars(StartLockAgain) /\ WF_vars(StartUnlock)
  /\ WF_vars(StopTest) /\ WF_vars(StopUnlock) /\ WF_vars(StopSetExit)

----------------------------------------------------------------------------
(* Reorganize as a step machine, on every list of 1..MaxReorgLen nodes.    *)

\* The i-th node of an input list has port i, so the nodes are distinct.
ReorgInputs ==
  UNION {{[i \in 1..n |-> Node(hs[i], i)] : hs \in [1..n -> Hosts]} : n \in 1..MaxReorgLen}

RgWhile ==
  /\ rg.pc = "while"
  /\ rg' = ReorgWhile(rg)
  /\ UNCHANGED sysvars

RgFor ==
  /\ rg.pc = "for"
  /\ rg.empty_count < MaxEmptyCount
  /\ rg' = ReorgFor(rg)
  /\ UNCHANGED sysvars

InitReorg ==
  /\ rg \in {ReorgStart(t) : t \in ReorgInputs}
  /\ floyd = EmptyStore
  /\ version_ = -1
  /\ node_alive_ = [n \in Endpoints |-> "absent"]
  /\ tasks = <<>>
  /\ leader_ip_ = ""
  /\ leader_cli_ = "NULL"
  /\ leader_first_time_ = TRUE
  /\ floyd_leader = "none"
  /\ d = DIdle
  /\ u = UIdle
  /\ p = PIdle
  /\ last_mt_write = -1
  /\ promoted = FALSE
  /\ observed = "unknown"
  /\ silent = {}
  /\ srv = SrvInit

NextReorg == RgWhile \/ RgFor

SpecReorg == InitReorg /\ [][NextReorg]_vars

----------------------------------------------------------------------------
(* Steps and state functions the properties below speak about.             *)

\* A step in which a SetMSInfo of this peer succeeded (lines 239, 477, 578).
DWroteMT == d.pc # "finish" /\ d'.pc = "finish" /\ (d'.cmd = "INIT" => d'.mt_ok)

UWroteMT == u.pc # "finish" /\ u'.pc = "finish"

MTWriteStep == DWroteMT \/ UWroteMT

\* The step with the version_++ that follows a successful SetMSInfo.
MTFinishStep ==
  \/ d.pc = "finish" /\ d'.pc # "finish" /\ (d.cmd = "INIT" => d.mt_ok)
  \/ u.pc = "finish" /\ u'.pc # "finish"

RemoteStep == \E n \in Endpoints : RemoteOffNode(n)

\* The partitions of the PartitionsTable a store holds.
Info(fl) == IF Has(fl.MT) THEN Get(fl.MT).info ELSE <<>>

\* Node n has status UP in the Nodes table a store holds.
IsUp(fl, n) ==
  /\ Has(fl.ND)
  /\ \E i \in 1..Len(Get(fl.ND)) :
        Get(fl.ND)[i].node = n /\ Get(fl.ND)[i].status = kNodeUp

IsDown(fl, n) ==
  /\ Has(fl.ND)
  /\ \E i \in 1..Len(Get(fl.ND)) :
        Get(fl.ND)[i].node = n /\ Get(fl.ND)[i].status = kNodeDown

\* The update worker takes a kOpRemove task for n: it runs OffNode(n).
OffNodeStep(n) ==
  /\ u.pc = "idle"
  /\ tasks # <<>>
  /\ Head(tasks) = <<n, "REMOVE">>
  /\ tasks' = Tail(tasks)

----------------------------------------------------------------------------
(* C1.  Every successful write of MT by Distribute, OffNode or OnNode      *)
(* carries the cached version_ as it is when the operation starts, plus    *)
(* one, and when the operation has returned from that success version_ has *)
(* advanced by exactly one: it equals the version the operation wrote.     *)
(* MT changes in no other step of this peer.                               *)
C1_WriteCarriesNextVersion ==
  [][ /\ MTWriteStep => MTVersion(floyd') = version_ + 1
      /\ MTFinishStep => version_' = last_mt_write
      /\ floyd'.MT # floyd.MT => (MTWriteStep \/ RemoteStep) ]_vars

(* C2.  The versions of the successive successful MT writes of this peer   *)
(* are strictly increasing, under every interleaving of the dispatcher,    *)
(* the update worker and the thread in BecomeLeader/InitVersion.           *)
C2_WritesStrictlyIncrease ==
  [][ MTWriteStep => last_mt_write' > last_mt_write ]_vars

(* C3.  After every promotion (BecomeLeader returned, whatever GetAllNode  *)
(* answered) the first MT write of this peer carries the persisted         *)
(* MT.version plus one.                                                    *)
C3_FirstWriteAfterPromotion ==
  [][ (MTWriteStep /\ promoted) => MTVersion(floyd') = MTVersion(floyd) + 1 ]_vars

\* An INIT step: Distribute runs up to its return or up to SetMSInfo.
InitStep == \E num \in 0..MaxNum, f \in Faults, k \in 0..(MaxNum - 1) : InitDistribute(num, f, k)

\* An INIT step in which Distribute returns Corruption at once.
InitRejected ==
  \E num \in 0..MaxNum, f \in Faults, k \in 0..(MaxNum - 1) :
     /\ InitDistribute(num, f, k)
     /\ Distribute(floyd, version_, num, f, k).mt = "none"
     /\ Distribute(floyd, version_, num, f, k).s = "Corruption"

\* The first INIT, with an UP node and every floyd call succeeding.
FirstInit(num) ==
  /\ ~Has(floyd.PN)
  /\ \E n \in Endpoints : IsUp(floyd, n)
  /\ InitDistribute(num, "none", 0)

(* C4.  For every num: the first INIT(num) on the leader with an UP node   *)
(* succeeds and sets PN = num (PN is written exactly when Distribute       *)
(* returns OK), and every INIT after one that succeeded returns            *)
(* Corruption.                                                             *)
C4_InitOnce ==
  [][ /\ \A num \in 0..MaxNum : FirstInit(num) => (d'.pc = "finish" /\ d'.mt_ok)
      /\ InitFinish(TRUE) => floyd'.PN = Val(d.num)
      /\ (Has(floyd.PN) /\ InitStep) => InitRejected ]_vars

\* The first slave of part that is UP in the store fl, 0 if none is.
FirstUpSlave(fl, part) ==
  LET js == {j \in 1..Len(part.slaves) : IsUp(fl, part.slaves[j])}
  IN IF js = {} THEN 0 ELSE Min(js)

(* C5.  For every OffNode(e) and every partition whose master is e: if a   *)
(* slave of it is UP, the first UP slave becomes the master, which is      *)
(* non-empty and not e, and e takes that slave's slot; otherwise the       *)
(* master becomes empty and e is appended to the slaves.                   *)
C5_OffNodePromotes ==
  [][ \A e \in Endpoints : OffNodeStep(e) =>
        \A i \in DOMAIN Info(floyd) :
           LET old == Info(floyd)[i]
               new == Info(floyd')[i]
               j == FirstUpSlave(floyd, old)
           IN old.master = e =>
                IF j # 0
                THEN /\ new.master = old.slaves[j]
                     /\ new.master # NoNode
                     /\ new.master # e
                     /\ new.slaves = [old.slaves EXCEPT ![j] = e]
                ELSE /\ new.master = NoNode
                     /\ new.slaves = Append(old.slaves, e) ]_vars

(* C6.  In every PartitionsTable this peer writes to MT, each partition's  *)
(* master is empty or is UP in the persisted Nodes table at that write.    *)
C6_MastersUpAtWrite ==
  [][ MTWriteStep =>
        \A i \in DOMAIN Info(floyd') :
           \/ Info(floyd')[i].master = NoNode
           \/ IsUp(floyd', Info(floyd')[i].master) ]_vars

\* A step of this peer that flips e from DOWN to UP in ND: SetNodeStatus
\* then calls OnNode(e) (line 341).
OnNodeStep(e) == IsDown(floyd, e) /\ IsUp(floyd', e)

(* C7.  For every OnNode(e) and every partition with an empty master whose *)
(* slaves contain e: afterwards e is its master and it has one slave       *)
(* less; partitions with a non-empty master are unchanged.                 *)
C7_OnNodePromotes ==
  [][ \A e \in Endpoints : OnNodeStep(e) =>
        \A i \in DOMAIN Info(floyd) :
           LET old == Info(floyd)[i]
               new == Info(floyd')[i]
           IN /\ (old.master = NoNode /\ e \in SeqToSet(old.slaves)) =>
                   (new.master = e /\ Len(new.slaves) = Len(old.slaves) - 1)
              /\ old.master # NoNode => new = old ]_vars

\* OnNode has just promoted a returning node to master of an orphaned partition.
C7_Witness ==
  /\ \/ u.pc = "finish" /\ u.op = "ADD"
     \/ d.pc = "finish" /\ d.cmd = "JOIN"
  /\ \E i \in DOMAIN Info(floyd) :
        /\ Info(floyd)[i].master = (IF u.pc = "finish" THEN u.n ELSE d.n)
        /\ Len(Info(floyd)[i].slaves) = 2

(* C8.  On the leader, in every reachable state, every endpoint present in *)
(* node_alive_ has status UP in the persisted Nodes table.                 *)
C8_AliveAreUp ==
  (floyd_leader = "self" /\ ~leader_first_time_) =>
     \A n \in Endpoints : node_alive_[n] # "absent" => IsUp(floyd, n)

\* The turn of the for loop emits a node.
RgEmits == rg.pc = "for" /\ Len(rg'.alive_nodes) = Len(rg.alive_nodes) + 1

\* The hosts that still have nodes not yet emitted.
RgRemaining(f) == {k \in DOMAIN f.m : f.m[k] # <<>>}

(* C9.  In the output of Reorganize two consecutive nodes come from        *)
(* distinct IPs whenever, when the second is emitted, at least two IPs     *)
(* still have nodes not yet emitted.                                       *)
C9_ConsecutiveDistinct ==
  [][ (/\ RgEmits
       /\ rg.alive_nodes # <<>>
       /\ Cardinality(RgRemaining(rg)) >= 2)
      => Ip(rg'.alive_nodes[Len(rg'.alive_nodes)]) # Ip(rg.alive_nodes[Len(rg.alive_nodes)]) ]_vars

\* A second pass has emitted a node while two hosts still had nodes.
C9_Witness ==
  /\ rg.pc = "for"
  /\ Len(rg.alive_nodes) >= 3
  /\ Cardinality(RgRemaining(rg)) >= 2
  /\ Ip(rg.alive_nodes[Len(rg.alive_nodes)]) = Ip(rg.alive_nodes[1])
  /\ Ip(rg.alive_nodes[Len(rg.alive_nodes)]) # Ip(rg.alive_nodes[Len(rg.alive_nodes) - 1])

(* C10.  Reorganize terminates on every non-empty list, exactly when every *)
(* bucket is empty.  At the test of line 164: the loop exits               *)
(* (empty_count = msize) only with every bucket empty; and with every      *)
(* bucket empty it exits now or after the one pass that counts the empty   *)
(* buckets (empty_count is msize or 0).  With any other count the test     *)
(* never succeeds again, since each later pass adds msize to empty_count.  *)
C10_TerminatesWhenEmpty ==
  rg.pc = "while" =>
     /\ rg.empty_count = rg.msize => ReorgAllEmpty(rg)
     /\ ReorgAllEmpty(rg) => rg.empty_count \in {0, rg.msize}

\* What one call of AddNode(n) leaves, every floyd call succeeding: the
\* store, the cached epoch and the Status.
AddNodeResult(fl, ver, n) ==
  LET o == AddNode(fl, ver, n, "none")
  IN [fl |-> o.fl, version_ |-> IF o.pend THEN ver + 1 ELSE ver, s |-> o.s]

(* C11.  For every endpoint e and every state in which no operation is in  *)
(* flight: AddNode(e) called twice leaves the same ND, MT and version_ and *)
(* returns the same Status as AddNode(e) called once.                      *)
C11_AddNodeIdempotent ==
  NodeMutexFree =>
     \A e \in Endpoints :
        LET once == AddNodeResult(floyd, version_, e)
            twice == AddNodeResult(once.fl, once.version_, e)
        IN twice = once

(* C12.  In every persisted state between operations, also after a floyd   *)
(* write failed inside Distribute, the table at MT has exactly PN entries  *)
(* (none when MT is absent, PN = 0 when PN is absent), with ids unique     *)
(* and each in 0..PN-1.                                                    *)
C12_TableMatchesPartitionNum ==
  NodeMutexFree =>
     LET pn == PartitionNums(floyd, "none")
         info == Info(floyd)
     IN /\ Len(info) = pn
        /\ \A i \in DOMAIN info : info[i].id \in 0..(pn - 1)
        /\ \A i, j \in DOMAIN info : info[i].id = info[j].id => i = j

\* What a whole call of Distribute(num) leaves (lines 180-260): the tail
\* after SetMSInfo runs version_++ on success and then writes PN, whose
\* outcome alone decides the Status.
DistributeResult(fl, ver, num, f, k, pn_ok) ==
  LET o == Distribute(fl, ver, num, f, k)
  IN IF o.mt = "none"
     THEN [fl |-> o.fl, version_ |-> ver, s |-> o.s]
     ELSE [fl |-> IF pn_ok THEN [o.fl EXCEPT !.PN = Val(num)] ELSE o.fl,
           version_ |-> IF o.mt = "ok" THEN ver + 1 ELSE ver,
           s |-> IF pn_ok THEN "OK" ELSE "Corruption"]

\* What a call of AddNode or OffNode that ended in o leaves.
TopoResult(o, ver) ==
  [fl |-> o.fl, version_ |-> IF o.pend THEN ver + 1 ELSE ver, s |-> o.s]

\* The call ended in r where it would have ended in ok with every write
\* succeeding: a floyd write failed in it.  It must then have left the
\* store and the epoch alone and reported an error.
FailedWriteIsAtomic(r, ok) ==
  r # ok => (r.fl = floyd /\ r.version_ = version_ /\ r.s # "OK")

(* C13.  When a floyd write fails inside Distribute, OffNode, OnNode or    *)
(* AddNode, the operation leaves ND, MT, PN and PART:<id> as they were     *)
(* before it started, does not advance version_, and reports an error.     *)
C13_WriteFailureAtomic ==
  NodeMutexFree =>
     /\ \A e \in Endpoints, f \in {"wND", "wMT"} :
           /\ FailedWriteIsAtomic(TopoResult(AddNode(floyd, version_, e, f), version_),
                                  TopoResult(AddNode(floyd, version_, e, "none"), version_))
           /\ FailedWriteIsAtomic(TopoResult(OffNode(floyd, version_, e, f), version_),
                                  TopoResult(OffNode(floyd, version_, e, "none"), version_))
     /\ \A num \in 0..MaxNum, f \in {"none", "wPART", "wMT"}, k \in 0..(MaxNum - 1),
           pn_ok \in BOOLEAN :
           FailedWriteIsAtomic(DistributeResult(floyd, version_, num, f, k, pn_ok),
                               DistributeResult(floyd, version_, num, "none", 0, TRUE))

\* A call of AddNode or OffNode ended in r where it would have ended in ok
\* had the record decoded: it must report Corruption and leave version_.
FailedDecodeSurfaces(r, ok) ==
  r # ok => (r.s = "Corruption" /\ r.version_ = version_)

(* C14.  When decoding a persisted record fails (Nodes in GetAllNode, the  *)
(* PartitionsTable in GetMSInfo or in InitVersion) the operation surfaces  *)
(* Corruption and version_ keeps the value it had before the attempt.      *)
C14_DecodeFailureKeepsVersion ==
  [][ /\ (p.pc = "iv_fail" /\ p'.pc = "idle") => version_' = version_
      /\ NodeMutexFree =>
           \A e \in Endpoints, f \in {"rND", "rMT"} :
              /\ FailedDecodeSurfaces(TopoResult(AddNode(floyd, version_, e, f), version_),
                                      TopoResult(AddNode(floyd, version_, e, "none"), version_))
              /\ FailedDecodeSurfaces(TopoResult(OffNode(floyd, version_, e, f), version_),
                                      TopoResult(OffNode(floyd, version_, e, "none"), version_)) ]_vars

(* C15.  On a follower RedirectToLeader returns the NoLeader/Unavailable   *)
(* kind of error, without sending, when the leader channel is not          *)
(* established; when Send or Recv fails it closes the channel and          *)
(* surfaces Unavailable, and forgets the leader so that the next IsLeader  *)
(* poll observing the same remote leader connects again.                   *)
C15_RedirectErrors ==
  Follower =>
     \A send_ok, recv_ok \in BOOLEAN :
        LET r == RedirectToLeader(leader_cli_, leader_ip_, send_ok, recv_ok)
        IN /\ leader_cli_ = "NULL" =>
                 /\ r.s \in {"NoLeader", "Unavailable"}
                 /\ r.leader_cli_ = "NULL"
           /\ (leader_cli_ # "NULL" /\ ~(send_ok /\ recv_ok)) =>
                 /\ r.s = "Unavailable"
                 /\ r.leader_cli_ = "NULL"
                 /\ r.leader_ip_ # floyd_leader

\* The step of IsLeader that calls BecomeLeader (lines 639-644).
BecomeLeaderStep == leader_first_time_ /\ ~leader_first_time_'

\* A poll of IsLeader finds this peer leader when the poll before did not.
IntoLeaderStep == observed # "leader" /\ observed' = "leader"

(* C16: over the observations of IsLeader, BecomeLeader is called on       *)
(* exactly the polls that find this peer leader when the poll before found *)
(* it unknown or follower (connected or not), the outgoing channel is torn *)
(* down by then, and a poll that finds it still leader does not call it.    *)
C16_BecomeLeaderOncePerTerm ==
  [][/\ IntoLeaderStep <=> BecomeLeaderStep
     /\ BecomeLeaderStep => leader_cli_' = "NULL" /\ leader_ip_' = ""]_vars

\* BecomeLeader runs for a peer that was leader before and has been follower since.
C16_Witness ==
  /\ observed = "leader"
  /\ p.pc = "restore"
  /\ last_mt_write >= 0

\* CheckNodeAlive (lines 486-504) would put a REMOVE task in the queue.
SweeperWouldRemove == \E n \in Endpoints : node_alive_[n] = "old"

(* C17: when a poll of IsLeader finds another peer leader, the peer's      *)
(* node_alive_ map is empty afterwards, whether it was leader or follower  *)
(* before, so a follower holds no entry that CheckNodeAlive could expire   *)
(* into a REMOVE task.                                                     *)
C17_FollowerHoldsNoLiveness ==
  [][observed' = "follower" =>
        /\ \A n \in Endpoints : node_alive_'[n] = "absent"
        /\ ~SweeperWouldRemove']_vars

\* A step of the dispatcher worker that handles a JOIN (lines 262-283).
JoinStep == d' # d /\ (d.cmd = "JOIN" \/ d'.cmd = "JOIN")

\* A step of the dispatcher worker that handles an INIT (lines 180-260).
InitCmdStep == d' # d /\ (d.cmd = "INIT" \/ d'.cmd = "INIT")

\* A step of the update worker.
WorkerStep == u' # u

\* A step of InitVersion, which reloads version_ from MT (lines 89-113).
InitVersionStep == p' # p /\ p.pc \in {"iv_set", "iv_fail"}

(* C18: a step of this peer that rewrites MT or moves version_ is a step   *)
(* of INIT/Distribute, of the update worker, or the reload of InitVersion; *)
(* a dispatcher worker handling a JOIN neither writes MT nor advances      *)
(* version_.                                                               *)
C18_WorkerIsSoleMutator ==
  [][/\ (floyd'.MT # floyd.MT \/ version_' # version_) =>
           (WorkerStep \/ InitCmdStep \/ InitVersionStep \/ RemoteStep)
     /\ JoinStep => (floyd'.MT = floyd.MT /\ version_' = version_)]_vars

\* The step of INIT in which Distribute's SetMSInfo succeeds (lines 238-242).
InitWroteMT == DWroteMT /\ d'.cmd = "INIT"

(* C19: on a cluster where MT was never written, the INIT that succeeds    *)
(* persists a PartitionsTable with version 1, and every later rewrite of   *)
(* MT by OffNode or OnNode persists the version after the stored one       *)
(* (2, 3, 4, ...).                                                         *)
C19_VersionsStartAtOne ==
  [][/\ (~Has(floyd.MT) /\ InitWroteMT) => MTVersion(floyd') = 1
     /\ (Has(floyd.MT) /\ floyd'.MT # floyd.MT) =>
           MTVersion(floyd') = MTVersion(floyd) + 1]_vars

\* Node n is the master of a partition of the PartitionsTable in fl.
IsMaster(fl, n) == \E i \in 1..Len(Info(fl)) : Info(fl)[i].master = n

\* The epoch has reached the bound of the model; no further rewrite is taken.
VersionCapReached == version_ >= MaxVersion

(* C20: with the leader staying leader and every floyd call succeeding,    *)
(* a data node that is UP, in node_alive_ and master of a partition when   *)
(* it has stopped sending PING and JOIN is eventually DOWN in Nodes and    *)
(* master of no partition, provided the sweeper and the update worker keep *)
(* running (and the epoch stays below the bound of the model).             *)
C20_SilentMasterIsReplaced ==
  \A e \in Endpoints :
     (e \in silent /\ IsUp(floyd, e) /\ node_alive_[e] # "absent" /\ IsMaster(floyd, e))
        ~> ((IsDown(floyd, e) /\ ~IsMaster(floyd, e)) \/ VersionCapReached)

\* How often endpoint n occurs in a list of nodes.
Count(nodes, n) == Cardinality({i \in 1..Len(nodes) : nodes[i] = n})

\* The master and the slaves of a partition, the empty master included.
Members(part) == <<part.master>> \o part.slaves

\* Two lists hold the same non-empty endpoints, each as often.
SameReplicas(a, b) == \A n \in Endpoints : Count(a, n) = Count(b, n)

\* Every partition of MT in fl holds the replicas of its Replicaset PART:<id>.
ReplicasAsDistributed(fl) ==
  \A i \in 1..Len(Info(fl)) :
     LET part == Info(fl)[i]
     IN /\ part.id \in DOMAIN fl.PART
        /\ Has(fl.PART[part.id])
        /\ SameReplicas(Members(part), Get(fl.PART[part.id]).node)

\* A step in which OffNode or OnNode rewrites MT, on this peer or the remote leader.
ReconfigStep ==
  \/ UWroteMT
  \/ DWroteMT /\ d'.cmd = "JOIN"
  \/ RemoteStep /\ floyd'.MT # floyd.MT

RgNodes(f) == SeqToSet(f.alive_nodes) \cup UNION {SeqToSet(f.m[k]) : k \in DOMAIN f.m}

\* No node occurs twice in a list.
NoRepeat(nodes) == Cardinality(SeqToSet(nodes)) = Len(nodes)

(* C22: the output of Reorganize is a permutation of its input.  No step   *)
(* of the loop loses or invents a node (a node is either emitted or still  *)
(* in its host's bucket), no node is emitted twice, and when Reorganize    *)
(* returns every bucket is empty, so every node passed in is in the output *)
(* exactly once, for every distribution of the nodes across hosts.         *)
C22_OutputIsPermutation ==
  /\ [][RgNodes(rg') = RgNodes(rg)]_vars
  /\ [](NoRepeat(rg.alive_nodes))
  /\ [](rg.pc = "done" => ReorgAllEmpty(rg))

(* C23: under every interleaving of Start() with one call of Stop() on    *)
(* another thread, once Stop() has returned Start() eventually leaves its  *)
(* wait (the leader-wait loop or the second Lock of server_mutex_) and     *)
(* reaches CleanUp().                                                      *)
C23_StartReachesCleanUp ==
  (srv.stop = "returned") ~> (srv.start = "cleanup")

====
